---- MODULE Spec2Model ----
(***************************************************************************)
(* TranslationService of src/src/articles/articles.module.ts: the HTML     *)
(* aware segmenter (splitIntoHTMLSafeChunks and its helpers), the         *)
(* chunk-by-chunk translation loop of translateToEnglish, and              *)
(* translateMultiple running several such calls at once.                   *)
(*                                                                         *)
(* A JavaScript string is a sequence of one-character strings.  Positions  *)
(* are 0-based as in the source: character p of text is text[p + 1].       *)
(***************************************************************************)
EXTENDS Integers, Sequences, FiniteSets, Bags, TLC

\* ------------------------------------------------------------------ bounds

\* Most tokens in a text handed to the segmenter.
MaxTokens == 4
\* Largest minChunkSize handed to the segmenter.
MaxN == 3
\* Most tokens in a text handed to translateToEnglish.
MaxPipeTokens == 2
\* Most texts handed to translateMultiple.
NumTexts == 2
\* Most tags and characters in a text handed to hasUnclosedTags alone.
MaxTags == 4
\* ArticlesService calls running at the same time
NumRequests == 3

\* Texts are built from markup tokens and single characters, so that short
\* token sequences cover both well-formed HTML and arbitrary character noise.
Tokens ==
    { <<"<", "a", ">">>, <<"<", "/", "a", ">">>, <<"<", "b", "r", ">">>,
      <<"a">>, <<"A">>, <<" ">>, <<"<">>, <<">">>, <<"/">> }

RECURSIVE TokenStrings(_)
TokenStrings(k) ==
    IF k = 0 THEN {<< >>}
    ELSE LET P == TokenStrings(k - 1)
         IN  P \cup {s \o t : s \in P, t \in Tokens}

Texts == TokenStrings(MaxTokens)
PipeTexts == TokenStrings(MaxPipeTokens)

\* The example of the specification's section 8, item 8.
ExampleText ==
    << "<", "p", ">",
       "H", "e", "l", "l", "o", " ", "w", "o", "r", "l", "d", ",", " ",
       "t", "h", "i", "s", " ", "i", "s", " ", "a", " ", "t", "e", "s", "t",
       " ", "o", "f", " ", "c", "h", "u", "n", "k", "i", "n", "g", ".",
       "<", "/", "p", ">",
       "<", "p", ">",
       "S", "e", "c", "o", "n", "d", " ", "p", "a", "r", "a", "g", "r", "a",
       "p", "h", " ", "h", "e", "r", "e", ".",
       "<", "/", "p", ">" >>

\* ------------------------------------------------------- string primitives

Min2(a, b) == IF a <= b THEN a ELSE b
SetMin(S) == CHOOSE x \in S : \A y \in S : x <= y
SetMax(S) == CHOOSE x \in S : \A y \in S : x >= y

LowerLetters ==
    << "a", "b", "c", "d", "e", "f", "g", "h", "i", "j", "k", "l", "m",
       "n", "o", "p", "q", "r", "s", "t", "u", "v", "w", "x", "y", "z" >>
UpperLetters ==
    << "A", "B", "C", "D", "E", "F", "G", "H", "I", "J", "K", "L", "M",
       "N", "O", "P", "Q", "R", "S", "T", "U", "V", "W", "X", "Y", "Z" >>
Digits == {"0", "1", "2", "3", "4", "5", "6", "7", "8", "9"}
Letters == {LowerLetters[k] : k \in 1..26} \cup {UpperLetters[k] : k \in 1..26}
Whitespace == {" ", "\t", "\n", "\r"}

\* String.prototype.toLowerCase, one character.
lowerChar(c) ==
    IF \E k \in 1..26 : UpperLetters[k] = c
    THEN LowerLetters[CHOOSE k \in 1..26 : UpperLetters[k] = c]
    ELSE c
toLowerCase(s) == [k \in DOMAIN s |-> lowerChar(s[k])]

\* String.prototype.substring(a, b): arguments clamped to [0, length] and
\* swapped when a > b.
substring(text, a, b) ==
    LET ca == Min2(IF a < 0 THEN 0 ELSE a, Len(text))
        cb == Min2(IF b < 0 THEN 0 ELSE b, Len(text))
        lo == Min2(ca, cb)
        hi == IF ca <= cb THEN cb ELSE ca
    IN  SubSeq(text, lo + 1, hi)

\* String.prototype.indexOf(ch, from): first index >= from holding ch, or -1.
indexOf(text, ch, from) ==
    LET S == {j \in from..(Len(text) - 1) : text[j + 1] = ch}
    IN  IF S = {} THEN -1 ELSE SetMin(S)

\* String.prototype.lastIndexOf(ch, from): last index <= from holding ch
\* (the character AT from is included), or -1.
lastIndexOf(text, ch, from) ==
    LET S == {j \in 0..Min2(from, Len(text) - 1) : text[j + 1] = ch}
    IN  IF S = {} THEN -1 ELSE SetMax(S)

\* String.prototype.trim.
trim(s) ==
    LET K == {k \in 1..Len(s) : s[k] \notin Whitespace}
    IN  IF K = {} THEN << >> ELSE SubSeq(s, SetMin(K), SetMax(K))

RECURSIVE join(_)
\* Array.prototype.join('').
join(parts) ==
    IF parts = << >> THEN << >> ELSE Head(parts) \o join(Tail(parts))

\* ------------------------------------------------------------ tag scanning

charAt(text, p) == IF p >= 0 /\ p < Len(text) THEN text[p + 1] ELSE ""

NoMatch == [found |-> FALSE]

\* One attempt of /<\/?([a-zA-Z][a-zA-Z0-9]*)[^>]*>/ anchored at position p:
\* '<', an optional '/', a name (a letter, then the longest run of letters and
\* digits), any characters other than '>', and the first '>' after the name.
tagAt(text, p) ==
    LET nameStart == IF charAt(text, p + 1) = "/" THEN p + 2 ELSE p + 1
        stops == {j \in nameStart..(Len(text) - 1) :
                    text[j + 1] \notin (Letters \cup Digits)}
        nameEnd == IF stops = {} THEN Len(text) ELSE SetMin(stops)
        gt == indexOf(text, ">", nameEnd)
    IN  IF charAt(text, p) = "<" /\ charAt(text, nameStart) \in Letters /\ gt # -1
        THEN [found |-> TRUE,
              fullTag |-> substring(text, p, gt + 1),
              tagName |-> substring(text, nameStart, nameEnd),
              lastIndex |-> gt + 1]
        ELSE NoMatch

RECURSIVE tagRegexExec(_, _)
\* tagRegex.exec(text) with the regex's lastIndex at from: the leftmost match
\* starting at or after from (a match starts at a '<').
tagRegexExec(text, from) ==
    LET lt == indexOf(text, "<", from)
    IN  IF lt = -1 THEN NoMatch
        ELSE LET m == tagAt(text, lt)
             IN  IF m.found THEN m ELSE tagRegexExec(text, lt + 1)

endsWith(s, suffix) ==
    Len(s) >= Len(suffix) /\ SubSeq(s, Len(s) - Len(suffix) + 1, Len(s)) = suffix
startsWith(s, prefix) ==
    Len(s) >= Len(prefix) /\ SubSeq(s, 1, Len(prefix)) = prefix

VoidElements ==
    { <<"b", "r">>, <<"i", "m", "g">>, <<"h", "r">>,
      <<"i", "n", "p", "u", "t">>, <<"m", "e", "t", "a">>,
      <<"l", "i", "n", "k">> }

RECURSIVE scanTagsIgnoringCase(_, _, _)
\* scanTags comparing a closing tag with the top of the stack without regard
\* to case.
scanTagsIgnoringCase(text, from, stack) ==
    LET m == tagRegexExec(text, from)
    IN  IF ~m.found THEN Len(stack) > 0
        ELSE IF endsWith(m.fullTag, <<"/", ">">>)
                \/ toLowerCase(m.tagName) \in VoidElements
        THEN scanTagsIgnoringCase(text, m.lastIndex, stack)
        ELSE IF startsWith(m.fullTag, <<"<", "/">>)
        THEN IF Len(stack) = 0
                \/ toLowerCase(stack[Len(stack)]) # toLowerCase(m.tagName)
             THEN TRUE
             ELSE scanTagsIgnoringCase(text, m.lastIndex,
                                       SubSeq(stack, 1, Len(stack) - 1))
        ELSE scanTagsIgnoringCase(text, m.lastIndex, Append(stack, m.tagName))

RECURSIVE scanTags(_, _, _)
\* The while loop of hasUnclosedTags from regex position from with the given
\* stack of open tag names.
scanTags(text, from, stack) ==
    LET m == tagRegexExec(text, from)
    IN  IF ~m.found THEN Len(stack) > 0
        ELSE IF endsWith(m.fullTag, <<"/", ">">>)
                \/ toLowerCase(m.tagName) \in VoidElements
        THEN scanTags(text, m.lastIndex, stack)
        ELSE IF startsWith(m.fullTag, <<"<", "/">>)
        THEN IF Len(stack) = 0 \/ stack[Len(stack)] # m.tagName
             THEN TRUE
             ELSE scanTags(text, m.lastIndex, SubSeq(stack, 1, Len(stack) - 1))
        ELSE scanTags(text, m.lastIndex, Append(stack, m.tagName))

hasUnclosedTags(text) == scanTags(text, 0, << >>)

isInsideTag(text, position) ==
    lastIndexOf(text, "<", position) > lastIndexOf(text, ">", position)

findSafeCutPosition(text, idealPosition) ==
    IF isInsideTag(text, idealPosition)
    THEN LET nextClose == indexOf(text, ">", idealPosition)
         IN  IF nextClose # -1 THEN nextClose + 1 ELSE idealPosition
    ELSE idealPosition

RECURSIVE closingTagFrom(_, _)
\* The leftmost match of /<\/[^>]+>/ starting at or after position p ('<',
\* '/', one or more characters other than '>', then '>'): the position just
\* after it, or -1.
closingTagFrom(text, p) ==
    LET lt == indexOf(text, "<", p)
        gt == indexOf(text, ">", lt + 3)
    IN  IF lt = -1 THEN -1
        ELSE IF /\ charAt(text, lt + 1) = "/"
                /\ lt + 2 < Len(text)
                /\ charAt(text, lt + 2) # ">"
                /\ gt # -1
        THEN gt + 1
        ELSE closingTagFrom(text, lt + 1)

\* remainingText.match(/<\/[^>]+>/) for remainingText = text.substring(endPos):
\* endPos + nextClosingTag.index + nextClosingTag[0].length, -1 without a match.
closingTagEnd(text, endPos) == closingTagFrom(text, endPos)

\* ---------------------------------------------------------------- segmenter

\* const maxAttempts = 100.
maxAttempts == 100

\* extendOnce with the take-the-rest branch forgetting endPos = text.length.
extendOnceKeepsEndPos(text, currentPos, endPos) ==
    LET close == closingTagEnd(text, endPos)
    IN  IF close # -1
        THEN LET safe == findSafeCutPosition(text, close)
             IN  [endPos |-> safe,
                  candidate |-> substring(text, currentPos, safe),
                  broke |-> FALSE]
        ELSE [endPos |-> endPos,
              candidate |-> substring(text, currentPos, Len(text)),
              broke |-> TRUE]

\* The body of the extension loop once a pass has started: extend the
\* candidate to just after the next closing tag, or take the rest of the text.
extendOnce(text, currentPos, endPos) ==
    LET close == closingTagEnd(text, endPos)
    IN  IF close # -1
        THEN LET safe == findSafeCutPosition(text, close)
             IN  [endPos |-> safe,
                  candidate |-> substring(text, currentPos, safe),
                  broke |-> FALSE]
        ELSE [endPos |-> Len(text),
              candidate |-> substring(text, currentPos, Len(text)),
              broke |-> TRUE]

RECURSIVE extendLoopNegated(_, _, _, _, _)
\* extendLoop with the tag test of the loop condition negated.
extendLoopNegated(text, currentPos, endPos, candidate, attempts) ==
    IF ~hasUnclosedTags(candidate) /\ endPos < Len(text) /\ attempts < maxAttempts
    THEN LET e == extendOnce(text, currentPos, endPos)
         IN  IF e.broke
             THEN [endPos |-> e.endPos, candidate |-> e.candidate,
                   attempts |-> attempts + 1]
             ELSE extendLoopNegated(text, currentPos, e.endPos, e.candidate,
                                    attempts + 1)
    ELSE [endPos |-> endPos, candidate |-> candidate, attempts |-> attempts]

RECURSIVE extendLoopUncapped(_, _, _, _, _)
\* extendLoop without the attempt cap in its loop condition.
extendLoopUncapped(text, currentPos, endPos, candidate, attempts) ==
    IF hasUnclosedTags(candidate) /\ endPos < Len(text)
    THEN LET e == extendOnce(text, currentPos, endPos)
         IN  IF e.broke
             THEN [endPos |-> e.endPos, candidate |-> e.candidate,
                   attempts |-> attempts + 1]
             ELSE extendLoopUncapped(text, currentPos, e.endPos, e.candidate,
                                     attempts + 1)
    ELSE [endPos |-> endPos, candidate |-> candidate, attempts |-> attempts]

RECURSIVE extendLoop(_, _, _, _, _)
\* while (hasUnclosedTags(candidate) && endPos < text.length
\*        && attempts < maxAttempts) { attempts++; ... }
extendLoop(text, currentPos, endPos, candidate, attempts) ==
    IF hasUnclosedTags(candidate) /\ endPos < Len(text) /\ attempts < maxAttempts
    THEN LET e == extendOnce(text, currentPos, endPos)
         IN  IF e.broke
             THEN [endPos |-> e.endPos, candidate |-> e.candidate,
                   attempts |-> attempts + 1]
             ELSE extendLoop(text, currentPos, e.endPos, e.candidate, attempts + 1)
    ELSE [endPos |-> endPos, candidate |-> candidate, attempts |-> attempts]

\* safetyCheck cutting one character after currentPos.
safetyCheckCutsOne(text, minChunkSize, currentPos, e) ==
    IF Len(trim(e.candidate)) = 0 \/ e.attempts >= maxAttempts
    THEN LET endPos == Min2(currentPos + 1, Len(text))
         IN  [endPos |-> endPos,
              candidate |-> substring(text, currentPos, endPos),
              attempts |-> e.attempts,
              forced |-> TRUE]
    ELSE [endPos |-> e.endPos, candidate |-> e.candidate,
          attempts |-> e.attempts, forced |-> FALSE]

\* The safety check after the extension loop: a blank candidate or an
\* exhausted attempt budget cuts at currentPos + minChunkSize.
safetyCheck(text, minChunkSize, currentPos, e) ==
    IF Len(trim(e.candidate)) = 0 \/ e.attempts >= maxAttempts
    THEN LET endPos == Min2(currentPos + minChunkSize, Len(text))
         IN  [endPos |-> endPos,
              candidate |-> substring(text, currentPos, endPos),
              attempts |-> e.attempts,
              forced |-> TRUE]
    ELSE [endPos |-> e.endPos, candidate |-> e.candidate,
          attempts |-> e.attempts, forced |-> FALSE]

\* splitIteration with the take-the-rest branch one character short.
splitIterationShortRest(text, minChunkSize, currentPos) ==
    LET endPos == Min2(currentPos + minChunkSize, Len(text))
    IN  IF endPos = Len(text)
        THEN [candidate |-> substring(text, currentPos, Len(text) - 1),
              endPos |-> endPos, attempts |-> 0, forced |-> FALSE,
              rest |-> TRUE, extEnd |-> endPos,
              balanced |-> ~hasUnclosedTags(substring(text, currentPos, Len(text)))]
        ELSE LET safe == findSafeCutPosition(text, endPos)
                 e == extendLoop(text, currentPos, safe,
                                 substring(text, currentPos, safe), 0)
                 c == safetyCheck(text, minChunkSize, currentPos, e)
             IN  [candidate |-> c.candidate, endPos |-> c.endPos,
                  attempts |-> c.attempts, forced |-> c.forced,
                  rest |-> FALSE, extEnd |-> e.endPos,
                  balanced |-> ~hasUnclosedTags(e.candidate)]

\* One iteration of the outer while loop of splitIntoHTMLSafeChunks at
\* currentPos < text.length: the chunk pushed, the new currentPos (endPos), and
\* whether the loop was left by the break of the take-the-rest branch.
\* attempts and forced record how the chunk came about, extEnd and balanced
\* what the extension loop left before the safety check: its endPos, and
\* whether its candidate had no unclosed tag.
splitIteration(text, minChunkSize, currentPos) ==
    LET endPos == Min2(currentPos + minChunkSize, Len(text))
    IN  IF endPos = Len(text)
        THEN [candidate |-> substring(text, currentPos, Len(text)),
              endPos |-> endPos, attempts |-> 0, forced |-> FALSE,
              rest |-> TRUE, extEnd |-> endPos,
              balanced |-> ~hasUnclosedTags(substring(text, currentPos, Len(text)))]
        ELSE LET safe == findSafeCutPosition(text, endPos)
                 e == extendLoop(text, currentPos, safe,
                                 substring(text, currentPos, safe), 0)
                 c == safetyCheck(text, minChunkSize, currentPos, e)
             IN  [candidate |-> c.candidate, endPos |-> c.endPos,
                  attempts |-> c.attempts, forced |-> c.forced,
                  rest |-> FALSE, extEnd |-> e.endPos,
                  balanced |-> ~hasUnclosedTags(e.candidate)]

\* --------------------------------------------------------------------- state

\* private readonly fields of TranslationService.
DELAY_BETWEEN_REQUESTS == 200
MAX_RETRIES == 3
RETRY_DELAY == 1000

\* translateToEnglish: const minChunkSize = 500.
TranslateMinChunkSize == 500

NoResult == <<"pending">>

\* No body is known to be under way.
NoBody == <<"none">>

VARIABLES
    text,             \* the text argument
    minChunkSize,     \* the minChunkSize argument / local
    pc,               \* where the running call stands
    currentPos,       \* splitIntoHTMLSafeChunks: let currentPos
    chunks,           \* const chunks
    cuts,             \* per pushed chunk: its start and end, and how it came about
    i,                \* translateToEnglish: the loop index
    translatedChunks, \* translateToEnglish: const translatedChunks
    successCount,     \* translateToEnglish: let successCount
    failCount,        \* translateToEnglish: let failCount
    log,              \* the calls made to fetch and to sleep, in order
    result,           \* the value the call returned
    body,             \* the parsed body response.json() is about to deliver
    texts,            \* translateMultiple: the texts argument
    calls,            \* translateMultiple: the locals of each translateToEnglish call
    finished,         \* translateMultiple: the calls in the order they returned
    translations,     \* translateMultiple: const translations
    db,               \* the database tables ArticlesService reads and writes
    reqs              \* ArticlesService: the locals of each call in progress

vars == <<text, minChunkSize, pc, currentPos, chunks, cuts, i,
          translatedChunks, successCount, failCount, log, result, body,
          texts, calls, finished, translations, db, reqs>>

segVars == <<text, minChunkSize, pc, currentPos, chunks, cuts>>
pipeVars == <<i, translatedChunks, successCount, failCount, log, result>>

\* What lies outside the locals of the running call.
outerVars == <<body, texts, calls, finished, translations, db, reqs>>

\* No translateMultiple is running.
NoMultiple ==
    /\ texts = << >>
    /\ calls = << >>
    /\ finished = << >>
    /\ translations = NoResult

\* No ArticlesService call is running and the database is not looked at.
NoArticles ==
    /\ db = << >>
    /\ reqs = << >>

InitLocals ==
    /\ NoArticles
    /\ NoMultiple
    /\ currentPos = 0
    /\ chunks = << >>
    /\ cuts = << >>
    /\ i = 0
    /\ translatedChunks = << >>
    /\ successCount = 0
    /\ failCount = 0
    /\ log = << >>
    /\ result = NoResult
    /\ body = NoBody

\* ------------------------------------------- splitIntoHTMLSafeChunks, stepwise

\* A text with more closing tags than the extension loop has attempts: an
\* opening <a>, then maxAttempts + 1 times a closing </A> and a character.
LongUnit == <<"<", "/", "A", ">", "a">>
LongText ==
    <<"<", "a", ">">> \o [k \in 1..(5 * (maxAttempts + 1)) |-> LongUnit[((k - 1) % 5) + 1]]

\* A text whose opening <a> is closed by the closing tag that the extension
\* loop reaches in its last allowed pass: maxAttempts times a closing tag the
\* tag scan does not count (its name starts with a digit) and a character,
\* then </a> and four more characters.
DeepUnit == <<"<", "/", "1", ">", "x">>
DeepText ==
    <<"<", "a", ">">> \o [k \in 1..(5 * maxAttempts) |-> DeepUnit[((k - 1) % 5) + 1]]
                      \o <<"<", "/", "a", ">", "x", "x", "x", "x">>

\* A call splitIntoHTMLSafeChunks(text, minChunkSize) about to test its loop
\* condition for the first time.
InitSeg ==
    /\ \/ text \in Texts /\ minChunkSize \in 1..MaxN
       \/ text = ExampleText /\ minChunkSize = 40
       \/ text = LongText /\ minChunkSize = 3
       \/ text = DeepText /\ minChunkSize = 3
    /\ pc = "splitting"
    /\ InitLocals

\* SplitStep with blank candidates dropped instead of pushed.
SplitStepSkipsBlank ==
    /\ pc = "splitting"
    /\ currentPos < Len(text)
    /\ \E it \in {splitIteration(text, minChunkSize, currentPos)} :
       LET blank == Len(trim(it.candidate)) = 0
       IN  /\ chunks' = IF blank THEN chunks ELSE Append(chunks, it.candidate)
           /\ cuts' = IF blank THEN cuts
                      ELSE Append(cuts, [start |-> currentPos, end |-> it.endPos,
                                         attempts |-> it.attempts,
                                         forced |-> it.forced, rest |-> it.rest,
                                         extEnd |-> it.extEnd,
                                         balanced |-> it.balanced])
           /\ currentPos' = IF it.rest THEN currentPos ELSE it.endPos
           /\ pc' = IF it.rest THEN "returned" ELSE "splitting"
    /\ UNCHANGED <<text, minChunkSize, i, translatedChunks, successCount,
                   failCount, log, result>>
    /\ UNCHANGED outerVars

\* One pass of while (currentPos < text.length) { ... }.
SplitStep ==
    /\ pc = "splitting"
    /\ currentPos < Len(text)
    /\ \E it \in {splitIteration(text, minChunkSize, currentPos)} :
           /\ chunks' = Append(chunks, it.candidate)
           /\ cuts' = Append(cuts, [start |-> currentPos, end |-> it.endPos,
                                    attempts |-> it.attempts,
                                    forced |-> it.forced, rest |-> it.rest,
                                    extEnd |-> it.extEnd,
                                    balanced |-> it.balanced])
           /\ currentPos' = IF it.rest THEN currentPos ELSE it.endPos
           /\ pc' = IF it.rest THEN "returned" ELSE "splitting"
    /\ UNCHANGED <<text, minChunkSize>>
    /\ UNCHANGED pipeVars
    /\ UNCHANGED outerVars

\* The loop condition fails: return chunks.
SplitReturn ==
    /\ pc = "splitting"
    /\ currentPos >= Len(text)
    /\ pc' = "returned"
    /\ UNCHANGED <<text, minChunkSize, currentPos, chunks, cuts>>
    /\ UNCHANGED pipeVars
    /\ UNCHANGED outerVars

NextSeg == SplitStep \/ SplitReturn

SpecSeg == InitSeg /\ [][NextSeg]_vars

\* ------------------------------------------------- hasUnclosedTags, alone

\* The pieces of the texts handed to hasUnclosedTags: opening and closing
\* tags of two names and two cases, tags of a void element, a self-closing
\* tag, and a character.
TagTokens ==
    { <<"<", "a", ">">>, <<"<", "/", "a", ">">>,
      <<"<", "A", ">">>, <<"<", "/", "A", ">">>,
      <<"<", "b", ">">>, <<"<", "/", "b", ">">>,
      <<"<", "b", "r", ">">>, <<"<", "B", "R", ">">>, <<"<", "/", "b", "r", ">">>,
      <<"<", "a", "/", ">">>, <<"x">> }

RECURSIVE TagTokenStrings(_)
TagTokenStrings(k) ==
    IF k = 0 THEN {<< >>}
    ELSE LET S == TagTokenStrings(k - 1)
         IN  S \cup {s \o t : s \in S, t \in TagTokens}

TagTexts == TagTokenStrings(MaxTags)

\* A call hasUnclosedTags(text) about to start.
InitTags ==
    /\ text \in TagTexts
    /\ minChunkSize = 1
    /\ pc = "tagsCalled"
    /\ InitLocals

\* hasUnclosedTags(text) runs and returns.
HasUnclosedTagsReturns ==
    /\ pc = "tagsCalled"
    /\ pc' = "tagsReturned"
    /\ \E r \in {hasUnclosedTags(text)} : result' = r
    /\ UNCHANGED <<text, minChunkSize, currentPos, chunks, cuts, i,
                   translatedChunks, successCount, failCount, log>>
    /\ UNCHANGED outerVars

NextTags == HasUnclosedTagsReturns

SpecTags == InitTags /\ [][NextTags]_vars

\* ------------------------------------------------------- translateToEnglish

\* The fields of the response body read by translateToEnglish, in the order of
\* the || chain.
Fields == <<"translated_text", "translatedText", "translation", "text", "response">>

\* What a field of the parsed body can hold: a falsy value (absent, "", null,
\* 0, false), a non-empty string, or a truthy value that is no string.
FieldKinds == {"falsy", "string", "other"}
Bodies == [1..Len(Fields) -> FieldKinds]

\* The non-empty string the endpoint put in field k for this chunk.
fieldString(k, chunk) == <<Fields[k]>> \o chunk

\* firstTruthy reading the fields in the reverse order.
firstTruthyReversed(data) ==
    LET T == {k \in 1..Len(Fields) : data[k] # "falsy"}
    IN  IF T = {} THEN 0 ELSE SetMax(T)

\* data.translated_text || data.translatedText || data.translation ||
\* data.text || data.response: the first truthy field, 0 when all are falsy.
firstTruthy(data) ==
    LET T == {k \in 1..Len(Fields) : data[k] # "falsy"}
    IN  IF T = {} THEN 0 ELSE SetMin(T)

FetchEvent(k) == [op |-> "fetch", chunk |-> k]
SleepEvent(ms) == [op |-> "sleep", ms |-> ms]

\* A call translateToEnglish(text) about to start.
Init ==
    /\ text \in PipeTexts
    /\ minChunkSize \in (1..MaxN) \cup {TranslateMinChunkSize}
    /\ pc = "called"
    /\ InitLocals

\* LoopTop sending the request of the chunk after next along with the next.
LoopTopPrefetches(k, tc, lg, cs) ==
    /\ i' = k
    /\ translatedChunks' = tc
    /\ IF k < Len(cs)
       THEN /\ pc' = "awaitFetch"
            /\ log' = IF k + 1 < Len(cs)
                       THEN lg \o <<FetchEvent(k), FetchEvent(k + 1)>>
                       ELSE Append(lg, FetchEvent(k))
            /\ result' = result
       ELSE /\ pc' = "done"
            /\ log' = lg
            /\ result' = join(tc)

\* The top of the for loop with index k and the results tc: the next chunk's
\* request is sent, or the loop ends and the joined results are returned.
LoopTop(k, tc, lg, cs) ==
    /\ i' = k
    /\ translatedChunks' = tc
    /\ IF k < Len(cs)
       THEN /\ pc' = "awaitFetch"
            /\ log' = Append(lg, FetchEvent(k))
            /\ result' = result
       ELSE /\ pc' = "done"
            /\ log' = lg
            /\ result' = join(tc)

\* CatchBlock rethrowing the error to the caller.
CatchBlockRethrows ==
    /\ failCount' = failCount + 1
    /\ pc' = "threw"
    /\ UNCHANGED <<i, translatedChunks, successCount, log, result>>

\* CatchBlock recording the failed chunk trimmed.
CatchBlockPushesTrimmed ==
    /\ failCount' = failCount + 1
    /\ successCount' = successCount
    /\ LoopTop(i + 1, Append(translatedChunks, trim(chunks[i + 1])), log, chunks)

\* CatchBlock starting the loop over from the first chunk.
CatchBlockRestarts ==
    /\ failCount' = failCount + 1
    /\ successCount' = successCount
    /\ LoopTop(0, << >>, log, chunks)

\* catch (error) { failCount++; translatedChunks.push(chunk); } and i++.
CatchBlock ==
    /\ failCount' = failCount + 1
    /\ successCount' = successCount
    /\ LoopTop(i + 1, Append(translatedChunks, chunks[i + 1]), log, chunks)

\* Call with the guard reduced to !text.
CallChecksEmptyOnly ==
    /\ pc = "called"
    /\ IF Len(text) = 0
       THEN pc' = "done" /\ result' = << >>
       ELSE pc' = "splitting" /\ result' = result
    /\ UNCHANGED <<text, minChunkSize, currentPos, chunks, cuts, i,
                   translatedChunks, successCount, failCount, log>>
    /\ UNCHANGED outerVars

\* The call up to the chunking: blank text returns '' at once.
Call ==
    /\ pc = "called"
    /\ IF Len(text) = 0 \/ trim(text) = << >>
       THEN pc' = "done" /\ result' = << >>
       ELSE pc' = "splitting" /\ result' = result
    /\ UNCHANGED <<text, minChunkSize, currentPos, chunks, cuts, i,
                   translatedChunks, successCount, failCount, log>>
    /\ UNCHANGED outerVars

\* splitIntoHTMLSafeChunks has returned: the for loop starts, up to its first
\* await.
StartLoop ==
    /\ pc = "returned"
    /\ LoopTop(0, << >>, log, chunks)
    /\ UNCHANGED <<text, minChunkSize, currentPos, chunks, cuts,
                   successCount, failCount>>
    /\ UNCHANGED outerVars

\* await fetch(...) rejects: a transport error.
FetchRejects ==
    /\ pc = "awaitFetch"
    /\ CatchBlock
    /\ UNCHANGED <<text, minChunkSize, currentPos, chunks, cuts>>
    /\ UNCHANGED outerVars

\* await fetch(...) resolves with !response.ok: throw new Error(`HTTP ...`).
FetchNotOk ==
    /\ pc = "awaitFetch"
    /\ CatchBlock
    /\ UNCHANGED <<text, minChunkSize, currentPos, chunks, cuts>>
    /\ UNCHANGED outerVars

\* await fetch(...) resolves with response.ok: on to await response.json().
FetchOk ==
    /\ pc = "awaitFetch"
    /\ pc' = "awaitJson"
    /\ UNCHANGED <<text, minChunkSize, currentPos, chunks, cuts, i,
                   translatedChunks, successCount, failCount, log, result>>
    /\ UNCHANGED outerVars

\* await response.json() rejects: the body is no JSON.
JsonRejects ==
    /\ pc = "awaitJson"
    /\ CatchBlock
    /\ UNCHANGED <<text, minChunkSize, currentPos, chunks, cuts>>
    /\ UNCHANGED outerVars

\* await response.json() resolves with null: reading data.translated_text
\* throws a TypeError.
JsonNull ==
    /\ pc = "awaitJson"
    /\ CatchBlock
    /\ UNCHANGED <<text, minChunkSize, currentPos, chunks, cuts>>
    /\ UNCHANGED outerVars

\* Success without successCount++.
SuccessForgetsCount(translated) ==
    /\ successCount' = successCount
    /\ failCount' = failCount
    /\ IF i < Len(chunks) - 1
       THEN /\ pc' = "awaitSleep"
            /\ translatedChunks' = Append(translatedChunks, translated)
            /\ log' = Append(log, SleepEvent(DELAY_BETWEEN_REQUESTS))
            /\ UNCHANGED <<i, result>>
       ELSE LoopTop(i + 1, Append(translatedChunks, translated), log, chunks)

\* Success putting the translation in front of the earlier results.
SuccessPrepends(translated) ==
    /\ successCount' = successCount + 1
    /\ failCount' = failCount
    /\ IF i < Len(chunks) - 1
       THEN /\ pc' = "awaitSleep"
            /\ translatedChunks' = <<translated>> \o translatedChunks
            /\ log' = Append(log, SleepEvent(DELAY_BETWEEN_REQUESTS))
            /\ UNCHANGED <<i, result>>
       ELSE LoopTop(i + 1, <<translated>> \o translatedChunks, log, chunks)

\* The success path after the translation was read: push, count, and either
\* wait before the next chunk or go round the loop.
Success(translated) ==
    /\ successCount' = successCount + 1
    /\ failCount' = failCount
    /\ IF i < Len(chunks) - 1
       THEN /\ pc' = "awaitSleep"
            /\ translatedChunks' = Append(translatedChunks, translated)
            /\ log' = Append(log, SleepEvent(DELAY_BETWEEN_REQUESTS))
            /\ UNCHANGED <<i, result>>
       ELSE LoopTop(i + 1, Append(translatedChunks, translated), log, chunks)

\* const translated = data.translated_text || ... || data.response and what
\* follows it: the first truthy field is the translation; none throws 'No
\* translation in response', and a truthy value without substring throws a
\* TypeError before the push.
ReadTranslation(data) ==
    LET k == firstTruthy(data)
    IN  IF k = 0 \/ data[k] = "other"
        THEN CatchBlock
        ELSE Success(fieldString(k, chunks[i + 1]))

\* await response.json() resolves with an object.
JsonResolves ==
    /\ pc = "awaitJson"
    /\ \E data \in Bodies : ReadTranslation(data)
    /\ UNCHANGED <<text, minChunkSize, currentPos, chunks, cuts>>
    /\ UNCHANGED outerVars

\* await this.sleep(DELAY_BETWEEN_REQUESTS) resolves: i++ and the loop test.
SleepResolves ==
    /\ pc = "awaitSleep"
    /\ LoopTop(i + 1, translatedChunks, log, chunks)
    /\ UNCHANGED <<text, minChunkSize, currentPos, chunks, cuts,
                   successCount, failCount>>
    /\ UNCHANGED outerVars

Next ==
    \/ Call
    \/ SplitStep
    \/ SplitReturn
    \/ StartLoop
    \/ FetchRejects
    \/ FetchNotOk
    \/ FetchOk
    \/ JsonRejects
    \/ JsonNull
    \/ JsonResolves
    \/ SleepResolves

Spec == Init /\ [][Next]_vars

\* ------------------------------------ translateToEnglish, one response body

\* A call translateToEnglish(text) on a text of one chunk, awaiting
\* response.json() of its request, the body under way being known.
InitBody ==
    /\ text \in {t \in PipeTexts : trim(t) # << >>}
    /\ minChunkSize = TranslateMinChunkSize
    /\ pc = "awaitJson"
    /\ currentPos = 0
    /\ chunks = <<splitIteration(text, minChunkSize, 0).candidate>>
    /\ cuts = <<[start |-> 0, end |-> Len(text), attempts |-> 0,
                 forced |-> FALSE, rest |-> TRUE, extEnd |-> Len(text),
                 balanced |-> ~hasUnclosedTags(text)]>>
    /\ i = 0
    /\ translatedChunks = << >>
    /\ successCount = 0
    /\ failCount = 0
    /\ log = <<FetchEvent(0)>>
    /\ result = NoResult
    /\ body \in Bodies
    /\ NoMultiple
    /\ NoArticles

\* await response.json() resolves with the body under way.
JsonDelivers ==
    /\ pc = "awaitJson"
    /\ body \in Bodies
    /\ ReadTranslation(body)
    /\ UNCHANGED <<text, minChunkSize, currentPos, chunks, cuts>>
    /\ UNCHANGED outerVars

NextBody == JsonDelivers

SpecBody == InitBody /\ [][NextBody]_vars

\* ------------------------------------------------------- translateMultiple

\* The texts handed to translateMultiple: a blank one, one of a single chunk
\* (a lone tag) and one of two chunks.
MultiTexts == {<<" ">>, <<"<", "a", ">">>, <<"a", "A">>}

\* The bodies answered to the calls of translateMultiple: only the first and
\* the last field may hold a string.
MultiBodies ==
    {d \in Bodies : /\ \A k \in 2..(Len(Fields) - 1) : d[k] = "falsy"
                    /\ d[1] # "other"
                    /\ d[Len(Fields)] # "other"}

\* splitIntoHTMLSafeChunks(t, n) with its while loop unrolled for two
\* passes: the chunks of a text that two passes exhaust (one of at most
\* 2 * n characters, or one whose first chunk reaches its end).
splitShort(t, n) ==
    IF Len(t) = 0 THEN << >>
    ELSE LET a == splitIteration(t, n, 0)
         IN  IF a.rest \/ a.endPos >= Len(t)
             THEN <<a.candidate>>
             ELSE <<a.candidate, splitIteration(t, n, a.endPos).candidate>>

\* The locals of a translateToEnglish(t) about to start; answers keeps what
\* the endpoint answered to its requests: the field taken, 0 for a failure.
NewCall(t) ==
    [pc |-> "called", text |-> t, currentPos |-> 0, chunks |-> << >>, i |-> 0,
     translatedChunks |-> << >>, answers |-> << >>, result |-> NoResult]

\* translateMultiple(texts) about to run texts.map.
InitMulti ==
    /\ texts \in UNION {[1..n -> MultiTexts] : n \in 0..NumTexts}
    /\ calls = [c \in 1..Len(texts) |-> NewCall(texts[c])]
    /\ finished = << >>
    /\ translations = NoResult
    /\ text = << >>
    /\ minChunkSize = 1
    /\ pc = "called"
    /\ currentPos = 0
    /\ chunks = << >>
    /\ cuts = << >>
    /\ i = 0
    /\ translatedChunks = << >>
    /\ successCount = 0
    /\ failCount = 0
    /\ log = << >>
    /\ result = NoResult
    /\ body = NoBody
    /\ db = << >>
    /\ reqs = << >>

\* Call c has reached its first await or has returned.
Started(c) == calls[c].pc \notin {"called", "splitting", "returned"}

\* texts.map runs the calls in order, each up to its first await, before any
\* awaited promise is handled.
MapReached(c) == \A d \in 1..(c - 1) : Started(d)
MapDone == \A d \in 1..Len(texts) : Started(d)

\* MultiRecord with translatedChunks being one array shared by all calls.
MultiRecordShared(c, r) ==
    /\ calls' = [d \in 1..Len(texts) |->
                    IF d = c THEN r
                    ELSE [calls[d] EXCEPT !.translatedChunks = r.translatedChunks]]
    /\ finished' = IF r.pc = "done" THEN Append(finished, c) ELSE finished

\* Call c goes on with the locals r; every local belongs to one call.
MultiRecord(c, r) ==
    /\ calls' = [calls EXCEPT ![c] = r]
    /\ finished' = IF r.pc = "done" THEN Append(finished, c) ELSE finished

\* The top of the for loop of one call, index k and results tc.
MultiLoopTop(r, k, tc) ==
    IF k < Len(r.chunks)
    THEN [r EXCEPT !.i = k, !.translatedChunks = tc, !.pc = "awaitFetch"]
    ELSE [r EXCEPT !.i = k, !.translatedChunks = tc, !.pc = "done",
                   !.result = join(tc)]

\* The catch block of one call.
MultiCatch(r) ==
    MultiLoopTop([r EXCEPT !.answers = Append(@, 0)], r.i + 1,
                 Append(r.translatedChunks, r.chunks[r.i + 1]))

\* The untouched variables of a step of translateMultiple.
MultiFrame ==
    UNCHANGED <<text, minChunkSize, pc, currentPos, chunks, cuts, i,
                translatedChunks, successCount, failCount, log, result, body,
                texts, translations, db, reqs>>

\* texts.map starts call c: the blank check.
MultiCall(c) ==
    /\ calls[c].pc = "called"
    /\ MapReached(c)
    /\ LET r == calls[c]
       IN  IF Len(r.text) = 0 \/ trim(r.text) = << >>
           THEN MultiRecord(c, [r EXCEPT !.pc = "done", !.result = << >>])
           ELSE MultiRecord(c, [r EXCEPT !.pc = "splitting"])
    /\ MultiFrame

\* One pass of the while loop of splitIntoHTMLSafeChunks in call c.
MultiSplitStep(c) ==
    /\ calls[c].pc = "splitting"
    /\ calls[c].currentPos < Len(calls[c].text)
    /\ \E it \in {splitIteration(calls[c].text, minChunkSize, calls[c].currentPos)} :
       LET r == calls[c]
       IN  MultiRecord(c, [r EXCEPT
               !.chunks = Append(@, it.candidate),
               !.currentPos = IF it.rest THEN @ ELSE it.endPos,
               !.pc = IF it.rest THEN "returned" ELSE "splitting"])
    /\ MultiFrame

MultiSplitReturn(c) ==
    /\ calls[c].pc = "splitting"
    /\ calls[c].currentPos >= Len(calls[c].text)
    /\ MultiRecord(c, [calls[c] EXCEPT !.pc = "returned"])
    /\ MultiFrame

\* The for loop of call c starts, up to its first await.
MultiStartLoop(c) ==
    /\ calls[c].pc = "returned"
    /\ MultiRecord(c, MultiLoopTop(calls[c], 0, << >>))
    /\ MultiFrame

\* await fetch(...) of call c rejects or resolves with !response.ok.
MultiFetchFails(c) ==
    /\ MapDone
    /\ calls[c].pc = "awaitFetch"
    /\ MultiRecord(c, MultiCatch(calls[c]))
    /\ MultiFrame

\* await fetch(...) of call c resolves with response.ok.
MultiFetchOk(c) ==
    /\ MapDone
    /\ calls[c].pc = "awaitFetch"
    /\ MultiRecord(c, [calls[c] EXCEPT !.pc = "awaitJson"])
    /\ MultiFrame

\* await response.json() of call c resolves with an object.
MultiJsonResolves(c) ==
    /\ MapDone
    /\ calls[c].pc = "awaitJson"
    /\ \E data \in MultiBodies :
         LET r == calls[c]
             k == firstTruthy(data)
             tc == Append(r.translatedChunks, fieldString(k, r.chunks[r.i + 1]))
         IN  IF k = 0 \/ data[k] = "other"
             THEN MultiRecord(c, MultiCatch(r))
             ELSE IF r.i < Len(r.chunks) - 1
             THEN MultiRecord(c, [r EXCEPT !.answers = Append(@, k),
                                           !.translatedChunks = tc,
                                           !.pc = "awaitSleep"])
             ELSE MultiRecord(c, MultiLoopTop([r EXCEPT !.answers = Append(@, k)],
                                              r.i + 1, tc))
    /\ MultiFrame

\* await this.sleep(DELAY_BETWEEN_REQUESTS) of call c resolves.
MultiSleepResolves(c) ==
    /\ MapDone
    /\ calls[c].pc = "awaitSleep"
    /\ MultiRecord(c, MultiLoopTop(calls[c], calls[c].i + 1,
                                   calls[c].translatedChunks))
    /\ MultiFrame

\* Promise.all resolves once every call has returned: the results in the
\* order of texts.
MultiAllResolve ==
    /\ translations = NoResult
    /\ \A c \in 1..Len(texts) : calls[c].pc = "done"
    /\ translations' = [c \in 1..Len(texts) |-> calls[c].result]
    /\ UNCHANGED <<text, minChunkSize, pc, currentPos, chunks, cuts, i,
                   translatedChunks, successCount, failCount, log, result, body,
                   texts, calls, finished, db, reqs>>

NextMulti ==
    \/ \E c \in 1..Len(texts) : MultiCall(c)
    \/ \E c \in 1..Len(texts) : MultiSplitStep(c)
    \/ \E c \in 1..Len(texts) : MultiSplitReturn(c)
    \/ \E c \in 1..Len(texts) : MultiStartLoop(c)
    \/ \E c \in 1..Len(texts) : MultiFetchFails(c)
    \/ \E c \in 1..Len(texts) : MultiFetchOk(c)
    \/ \E c \in 1..Len(texts) : MultiJsonResolves(c)
    \/ \E c \in 1..Len(texts) : MultiSleepResolves(c)
    \/ MultiAllResolve

SpecMulti == InitMulti /\ [][NextMulti]_vars

(***************************************************************************)
(* ArticlesService over the database.  The tables are the ones the         *)
(* migrations create; a table whose rows have a generated id is a bag of   *)
(* its rows without the id, post is a sequence indexed by the post id.     *)
(* Every await of a method is one step; prisma.$transaction([...]) is one  *)
(* step that writes everything or, when one of its writes fails, nothing.  *)
(***************************************************************************)
translationVars == <<text, minChunkSize, pc, currentPos, chunks, cuts, i,
                     translatedChunks, successCount, failCount, log, result,
                     body, texts, calls, finished, translations>>

\* No translation is running.
NoTranslation ==
    /\ text = << >>
    /\ minChunkSize = 1
    /\ pc = "idle"
    /\ currentPos = 0
    /\ chunks = << >>
    /\ cuts = << >>
    /\ i = 0
    /\ translatedChunks = << >>
    /\ successCount = 0
    /\ failCount = 0
    /\ log = << >>
    /\ result = NoResult
    /\ body = NoBody
    /\ NoMultiple

Ips == {"ip1", "ip2"}

\* CryptoJS.SHA256(ip).toString()
hashIp(ip) == <<"sha256", ip>>

\* A slug: base, or `${base}-${n}` for n >= 1.
Slug(base, n) == [base |-> base, n |-> n]

NoPost == [id |-> 0]

\* A row of post as the migrations default it.
NewPost(slug, categoryId) ==
    [live |-> TRUE, slug |-> slug, viewCount |-> 0, likeCount |-> 0,
     published |-> FALSE, featured |-> FALSE, categoryId |-> categoryId]

NewCategory(slug) == [live |-> TRUE, slug |-> slug]

EmptyDb ==
    [post |-> << >>, category |-> << >>, tag |-> {}, postTag |-> {},
     postLiked |-> EmptyBag, postViewed |-> EmptyBag]

\* prisma.post.findUnique({ where: { slug } }): the row, or null.
postFindUniqueBySlug(d, slug) ==
    LET hit == {p \in DOMAIN d.post : d.post[p].live /\ d.post[p].slug = slug}
    IN  IF hit = {} THEN NoPost
        ELSE LET p == CHOOSE q \in hit : TRUE
             IN  [id |-> p, slug |-> d.post[p].slug,
                  viewCount |-> d.post[p].viewCount,
                  likeCount |-> d.post[p].likeCount]

\* prisma.post.findUnique({ where: { id } }): the row, or null.
postFindUniqueById(d, id) ==
    IF id \in DOMAIN d.post /\ d.post[id].live
    THEN [id |-> id, slug |-> d.post[id].slug,
          viewCount |-> d.post[id].viewCount,
          likeCount |-> d.post[id].likeCount]
    ELSE NoPost

LikeRow(postId, hashedIp) == [postId |-> postId, likerIp |-> hashedIp]

\* prisma.postLiked.findUnique({ where: { postId_likerIp } }) found a row.
postLikedExists(d, postId, hashedIp) ==
    CopiesIn(LikeRow(postId, hashedIp), d.postLiked) >= 1

\* The call r ends: it returns or throws.
Ends(r, outcome) ==
    reqs' = [reqs EXCEPT ![r].pc = "done", ![r].outcome = outcome]

NewLikeCall(op, slug, ip) ==
    [op |-> op, slug |-> slug, ip |-> ip, pc |-> "findPost", post |-> NoPost,
     outcome |-> "pending", returned |-> 0]

\* const post = await prisma.post.findUnique({ where: { slug } });
\* if (!post) throw new NotFoundException
FindPostOf(r, op, next) ==
    /\ reqs[r].op = op
    /\ reqs[r].pc = "findPost"
    /\ \E post \in {postFindUniqueBySlug(db, reqs[r].slug)} :
          IF post = NoPost
          THEN Ends(r, "NotFoundException")
          ELSE reqs' = [reqs EXCEPT ![r].pc = next, ![r].post = post]
    /\ UNCHANGED db
    /\ UNCHANGED translationVars

LikePostFindPost(r) == FindPostOf(r, "likePost", "findLike")

\* const existingLike = await prisma.postLiked.findUnique(...);
\* if (existingLike) throw new ConflictException
LikePostFindLike(r) ==
    /\ reqs[r].op = "likePost"
    /\ reqs[r].pc = "findLike"
    /\ IF postLikedExists(db, reqs[r].post.id, hashIp(reqs[r].ip))
       THEN Ends(r, "ConflictException")
       ELSE reqs' = [reqs EXCEPT ![r].pc = "transaction"]
    /\ UNCHANGED db
    /\ UNCHANGED translationVars

\* The unlike transaction with a deleteMany in place of the delete: no row to
\* delete is not an error.
UnlikeTransactionDeleteMany(d, postId, hashedIp) ==
    LET row == LikeRow(postId, hashedIp)
    IN  IF ~d.post[postId].live
        THEN [error |-> "P2025", db |-> d]
        ELSE [error |-> "none",
              db |-> [d EXCEPT !.postLiked = @ (-) SetToBag({row}),
                               !.post[postId].likeCount = @ - 1]]

\* $transaction([postLiked.create, post.update likeCount increment 1]): the
\* unique index post_liked_postId_likerIp_key refuses a second row.
LikeTransaction(d, postId, hashedIp) ==
    LET row == LikeRow(postId, hashedIp)
    IN  IF ~d.post[postId].live
        THEN [error |-> "P2003", db |-> d]
        ELSE IF CopiesIn(row, d.postLiked) >= 1
        THEN [error |-> "P2002", db |-> d]
        ELSE [error |-> "none",
              db |-> [d EXCEPT !.postLiked = @ (+) SetToBag({row}),
                               !.post[postId].likeCount = @ + 1]]

\* $transaction([postLiked.delete, post.update likeCount decrement 1]):
\* delete throws when the row is not there.
UnlikeTransaction(d, postId, hashedIp) ==
    LET row == LikeRow(postId, hashedIp)
    IN  IF CopiesIn(row, d.postLiked) = 0 \/ ~d.post[postId].live
        THEN [error |-> "P2025", db |-> d]
        ELSE [error |-> "none",
              db |-> [d EXCEPT !.postLiked = @ (-) SetToBag({row}),
                               !.post[postId].likeCount = @ - 1]]

Max0(n) == IF n < 0 THEN 0 ELSE n

LikePostTransaction(r) ==
    /\ reqs[r].op = "likePost"
    /\ reqs[r].pc = "transaction"
    /\ \E tx \in {LikeTransaction(db, reqs[r].post.id, hashIp(reqs[r].ip))} :
          /\ db' = tx.db
          /\ IF tx.error # "none"
             THEN Ends(r, tx.error)
             ELSE reqs' = [reqs EXCEPT ![r].pc = "done", ![r].outcome = "ok",
                                       ![r].returned = reqs[r].post.likeCount + 1]
    /\ UNCHANGED translationVars

UnlikePostFindPost(r) == FindPostOf(r, "unlikePost", "findLike")

\* if (!existingLike) throw new ConflictException
UnlikePostFindLike(r) ==
    /\ reqs[r].op = "unlikePost"
    /\ reqs[r].pc = "findLike"
    /\ IF ~postLikedExists(db, reqs[r].post.id, hashIp(reqs[r].ip))
       THEN Ends(r, "ConflictException")
       ELSE reqs' = [reqs EXCEPT ![r].pc = "transaction"]
    /\ UNCHANGED db
    /\ UNCHANGED translationVars

UnlikePostTransaction(r) ==
    /\ reqs[r].op = "unlikePost"
    /\ reqs[r].pc = "transaction"
    /\ \E tx \in {UnlikeTransaction(db, reqs[r].post.id, hashIp(reqs[r].ip))} :
          /\ db' = tx.db
          /\ IF tx.error # "none"
             THEN Ends(r, tx.error)
             ELSE reqs' = [reqs EXCEPT ![r].pc = "done", ![r].outcome = "ok",
                                       ![r].returned = Max0(reqs[r].post.likeCount - 1)]
    /\ UNCHANGED translationVars

\* One stored post; the calls name it or a slug no post has.
LikeSlugs == {Slug(<<"p">>, 0), Slug(<<"q">>, 0)}

LikeCalls ==
    {NewLikeCall(op, slug, ip) :
        op \in {"likePost", "unlikePost"}, slug \in LikeSlugs, ip \in Ips}

InitLikes ==
    /\ NoTranslation
    /\ db = [EmptyDb EXCEPT !.post = <<NewPost(Slug(<<"p">>, 0), 1)>>]
    /\ reqs \in [1..NumRequests -> LikeCalls]

NextLikes ==
    \E r \in DOMAIN reqs :
        \/ LikePostFindPost(r)
        \/ LikePostFindLike(r)
        \/ LikePostTransaction(r)
        \/ UnlikePostFindPost(r)
        \/ UnlikePostFindLike(r)
        \/ UnlikePostTransaction(r)

SpecLikes == InitLikes /\ [][NextLikes]_vars

\* ---- findOne, findBySlug, publish, unpublish, update, remove ----

\* A string argument that was not given.
NoSlug == << >>

\* slugify(s, { lower: true, strict: true }) on names made of letters
slugify(s) == toLowerCase(s)

\* generateSlug(title, baseSlug)
generateSlug(title, baseSlug) ==
    IF baseSlug # NoSlug THEN slugify(baseSlug) ELSE slugify(title)

NewIdCall(op, id) ==
    [op |-> op, id |-> id, pc |-> "findOne", outcome |-> "pending", bumps |-> 0]

\* update(id, dto) with dto.slug, dto.categoryId, dto.articleData (the plain
\* columns) and, when given, dto.tagIds; uniqueSlug, counter:
\* ensureUniqueSlug's locals.
NewUpdateCall(id, dto) ==
    [op |-> "update", id |-> id, dto |-> dto, pc |-> "findOne",
     outcome |-> "pending", bumps |-> 0,
     table |-> "post", base |-> generateSlug(NoSlug, dto.slug), excludeId |-> id,
     uniqueSlug |-> Slug(generateSlug(NoSlug, dto.slug), 0), counter |-> 1,
     deleted |-> FALSE, before |-> {}]

NewViewCall(slug, ip) ==
    [op |-> "findBySlug", slug |-> slug, ip |-> ip, pc |-> "findPost",
     post |-> NoPost, outcome |-> "pending", bumps |-> 0]

\* update: what follows the slug part.
AfterSlug(call) ==
    IF "tagIds" \in DOMAIN call.dto THEN "deleteMany" ELSE "write"

\* Where a method goes on when its findOne(id) has returned.
AfterFindOne(call) ==
    CASE call.op = "findOne" -> "done"
      [] call.op = "update" ->
            IF call.dto.slug # NoSlug THEN "ensureUniqueSlug" ELSE AfterSlug(call)
      [] OTHER -> "write"

\* findOne: const article = await prisma.post.findUnique({ where: { id } });
\* if (!article) throw new NotFoundException
FindOneFind(r) ==
    /\ reqs[r].pc = "findOne"
    /\ IF postFindUniqueById(db, reqs[r].id) = NoPost
       THEN Ends(r, "NotFoundException")
       ELSE reqs' = [reqs EXCEPT ![r].pc = "increment"]
    /\ UNCHANGED db
    /\ UNCHANGED translationVars

\* findOne: await prisma.post.update({ where: { id },
\*                                     data: { viewCount: { increment: 1 } } })
FindOneIncrement(r) ==
    /\ reqs[r].pc = "increment"
    /\ IF postFindUniqueById(db, reqs[r].id) = NoPost
       THEN /\ Ends(r, "P2025")
            /\ UNCHANGED db
       ELSE /\ db' = [db EXCEPT !.post[reqs[r].id].viewCount = @ + 1]
            /\ \E next \in {AfterFindOne(reqs[r])} :
                  reqs' = [reqs EXCEPT
                             ![r].pc = next,
                             ![r].bumps = @ + 1,
                             ![r].outcome = IF next = "done" THEN "ok" ELSE @]
    /\ UNCHANGED translationVars

\* The write of publish, unpublish: prisma.post.update({ where: { id }, data })
SetPublished(r, op, value) ==
    /\ reqs[r].op = op
    /\ reqs[r].pc = "write"
    /\ IF postFindUniqueById(db, reqs[r].id) = NoPost
       THEN /\ Ends(r, "P2025")
            /\ UNCHANGED db
       ELSE /\ db' = [db EXCEPT !.post[reqs[r].id].published = value]
            /\ Ends(r, "ok")
    /\ UNCHANGED translationVars

Publish(r) == SetPublished(r, "publish", TRUE)

Unpublish(r) == SetPublished(r, "unpublish", FALSE)

\* The rows of a bag of rows that are not of post id.
NotOfPost(bag, id) ==
    [row \in {x \in BagToSet(bag) : x.postId # id} |-> bag[row]]

\* prisma.post.delete({ where: { id } }), with the ON DELETE CASCADE of
\* post_tag, post_liked and post_viewed.
Remove(r) ==
    /\ reqs[r].op = "remove"
    /\ reqs[r].pc = "write"
    /\ IF postFindUniqueById(db, reqs[r].id) = NoPost
       THEN /\ Ends(r, "P2025")
            /\ UNCHANGED db
       ELSE /\ db' = [db EXCEPT
                        !.post[reqs[r].id].live = FALSE,
                        !.postTag = {x \in @ : x.postId # reqs[r].id},
                        !.postLiked = NotOfPost(@, reqs[r].id),
                        !.postViewed = NotOfPost(@, reqs[r].id)]
            /\ Ends(r, "ok")
    /\ UNCHANGED translationVars

\* prisma.post.update({ where: { id }, data: updatedData }): the unique index
\* post_slug_key and the foreign key post_categoryId_fkey can refuse it.
PostUpdate(d, id, data) ==
    IF postFindUniqueById(d, id) = NoPost
    THEN [error |-> "P2025", db |-> d]
    ELSE IF /\ data.slug # NoSlug
            /\ postFindUniqueBySlug(d, data.slug).id \notin {0, id}
    THEN [error |-> "P2002", db |-> d]
    ELSE IF data.categoryId # 0 /\ data.categoryId \notin DOMAIN d.category
    THEN [error |-> "P2003", db |-> d]
    ELSE [error |-> "none",
          db |-> [d EXCEPT
                    !.post[id].slug = IF data.slug # NoSlug THEN data.slug ELSE @,
                    !.post[id].categoryId =
                        IF data.categoryId # 0 THEN data.categoryId ELSE @,
                    !.post[id].featured =
                        IF "featured" \in DOMAIN data.articleData
                        THEN data.articleData.featured ELSE @]]

\* update: updatedData as it stands at the final post.update.
updatedData(call) ==
    [slug |-> IF call.dto.slug # NoSlug THEN call.uniqueSlug ELSE NoSlug,
     categoryId |-> call.dto.categoryId,
     articleData |-> call.dto.articleData]

\* update: const article = await prisma.post.update({ where: { id },
\*                                                    data: updatedData })
UpdateWrite(r) ==
    /\ reqs[r].op = "update"
    /\ reqs[r].pc = "write"
    /\ \E tx \in {PostUpdate(db, reqs[r].id, updatedData(reqs[r]))} :
          /\ db' = tx.db
          /\ Ends(r, IF tx.error = "none" THEN "ok" ELSE tx.error)
    /\ UNCHANGED translationVars

ViewRow(postId, hashedIp) == [postId |-> postId, viewerIp |-> hashedIp]

FindBySlugFindPost(r) == FindPostOf(r, "findBySlug", "findView")

\* const existingView = await prisma.postViewed.findFirst(...);
\* if (!existingView) { ... }  return article;
FindBySlugFindView(r) ==
    /\ reqs[r].op = "findBySlug"
    /\ reqs[r].pc = "findView"
    /\ IF CopiesIn(ViewRow(reqs[r].post.id, hashIp(reqs[r].ip)), db.postViewed) >= 1
       THEN Ends(r, "ok")
       ELSE reqs' = [reqs EXCEPT ![r].pc = "transaction"]
    /\ UNCHANGED db
    /\ UNCHANGED translationVars

\* $transaction([postViewed.create, post.update viewCount increment 1]);
\* post_viewed has no unique index on (postId, viewerIp).
ViewTransaction(d, postId, hashedIp) ==
    IF ~d.post[postId].live
    THEN [error |-> "P2003", db |-> d]
    ELSE [error |-> "none",
          db |-> [d EXCEPT
                    !.postViewed = @ (+) SetToBag({ViewRow(postId, hashedIp)}),
                    !.post[postId].viewCount = @ + 1]]

FindBySlugTransaction(r) ==
    /\ reqs[r].op = "findBySlug"
    /\ reqs[r].pc = "transaction"
    /\ \E tx \in {ViewTransaction(db, reqs[r].post.id, hashIp(reqs[r].ip))} :
          /\ db' = tx.db
          /\ IF tx.error # "none"
             THEN Ends(r, tx.error)
             ELSE reqs' = [reqs EXCEPT ![r].pc = "done", ![r].outcome = "ok",
                                       ![r].bumps = @ + 1]
    /\ UNCHANGED translationVars

\* update(id, { featured: true }): nothing but a plain column.
PlainDto ==
    [slug |-> NoSlug, categoryId |-> 0, articleData |-> [featured |-> TRUE]]

\* One stored post with id 1 and slug p; id 2 and slug q are no post's.
ViewCalls ==
    {NewViewCall(slug, ip) : slug \in LikeSlugs, ip \in Ips}
    \cup {NewIdCall("findOne", id) : id \in {1, 2}}
    \cup {NewIdCall(op, 1) : op \in {"publish", "unpublish", "remove"}}
    \cup {NewUpdateCall(1, PlainDto)}

InitViews ==
    /\ NoTranslation
    /\ db = [EmptyDb EXCEPT !.post = <<NewPost(Slug(<<"p">>, 0), 1)>>,
                            !.category = <<NewCategory(Slug(<<"c">>, 0))>>]
    /\ reqs \in [1..NumRequests -> ViewCalls]

NextViews ==
    \E r \in DOMAIN reqs :
        \/ FindOneFind(r)
        \/ FindOneIncrement(r)
        \/ Publish(r)
        \/ Unpublish(r)
        \/ Remove(r)
        \/ UpdateWrite(r)
        \/ FindBySlugFindPost(r)
        \/ FindBySlugFindView(r)
        \/ FindBySlugTransaction(r)

SpecViews == InitViews /\ [][NextViews]_vars

\* ---- ensureUniqueSlug, create, update with tags ----

\* MaxPosts: the rows a table holds when ensureUniqueSlug is called
MaxPosts == 3

\* prisma.post.findUnique / prisma.category.findUnique({ where: { slug } }):
\* the id of the row, 0 for null.
slugHolder(d, table, slug) ==
    LET hit == {p \in DOMAIN d[table] : d[table][p].live /\ d[table][p].slug = slug}
    IN  IF hit = {} THEN 0 ELSE CHOOSE q \in hit : TRUE

\* The loop's test with its second half dropped.
slugFreeWithoutExclude(existing, excludeId) ==
    existing = 0

\* !existing || (excludeId && existing.id === excludeId)
slugFree(existing, excludeId) ==
    existing = 0 \/ (excludeId # 0 /\ existing = excludeId)

\* ensureUniqueSlug(slug, excludeId) called by itself, on post in
\* ArticlesService and on category in CategoriesService.
NewSlugCall(table, base, excludeId) ==
    [op |-> "ensureUniqueSlug", table |-> table, base |-> base,
     excludeId |-> excludeId, pc |-> "ensureUniqueSlug", outcome |-> "pending",
     uniqueSlug |-> Slug(base, 0), counter |-> 1]

\* create(dto) with dto.title, dto.slug and dto.categoryId
NewCreateCall(dto) ==
    [op |-> "create", dto |-> dto, pc |-> "ensureUniqueSlug",
     outcome |-> "pending", table |-> "post",
     base |-> generateSlug(dto.title, dto.slug), excludeId |-> 0,
     uniqueSlug |-> Slug(generateSlug(dto.title, dto.slug), 0), counter |-> 1]

\* Where the caller goes on when ensureUniqueSlug has returned: create runs
\* on to prisma.post.create or to throw new Error('Category is required').
AfterEnsure(call) ==
    CASE call.op = "update" -> AfterSlug(call)
      [] call.op = "create" -> IF call.dto.categoryId = 0 THEN "done" ELSE "create"
      [] OTHER -> "done"

\* One pass of the while (true) of ensureUniqueSlug.
EnsureUniqueSlugFind(r) ==
    /\ reqs[r].pc = "ensureUniqueSlug"
    /\ \E existing \in {slugHolder(db, reqs[r].table, reqs[r].uniqueSlug)} :
          IF slugFree(existing, reqs[r].excludeId)
          THEN \E next \in {AfterEnsure(reqs[r])} :
                  reqs' = [reqs EXCEPT
                             ![r].pc = next,
                             ![r].outcome =
                                 IF next # "done" THEN @
                                 ELSE IF reqs[r].op = "create" THEN "Error" ELSE "ok"]
          ELSE reqs' = [reqs EXCEPT
                          ![r].uniqueSlug = Slug(reqs[r].base, reqs[r].counter),
                          ![r].counter = @ + 1]
    /\ UNCHANGED db
    /\ UNCHANGED translationVars

\* prisma.post.create({ data: { slug: uniqueSlug, categoryId, ... } }): the
\* unique index post_slug_key and post_categoryId_fkey can refuse it.
PostCreate(d, slug, categoryId) ==
    IF slugHolder(d, "post", slug) # 0
    THEN [error |-> "P2002", db |-> d]
    ELSE IF categoryId \notin DOMAIN d.category
    THEN [error |-> "P2003", db |-> d]
    ELSE [error |-> "none",
          db |-> [d EXCEPT !.post = Append(@, NewPost(slug, categoryId))]]

\* create: const article = await prisma.post.create(...)
CreateWrite(r) ==
    /\ reqs[r].op = "create"
    /\ reqs[r].pc = "create"
    /\ \E tx \in {PostCreate(db, reqs[r].uniqueSlug, reqs[r].dto.categoryId)} :
          /\ db' = tx.db
          /\ Ends(r, IF tx.error = "none" THEN "ok" ELSE tx.error)
    /\ UNCHANGED translationVars

\* The tag ids post_tag links post id to.
TagsOfPost(d, id) == {row.tagId : row \in {x \in d.postTag : x.postId = id}}

\* update: await prisma.postTag.deleteMany({ where: { postId: id } }), then
\* tagsToConnect.push(...tagIds)
UpdateDeleteMany(r) ==
    /\ reqs[r].op = "update"
    /\ reqs[r].pc = "deleteMany"
    /\ db' = [db EXCEPT !.postTag = {x \in @ : x.postId # reqs[r].id}]
    /\ reqs' = [reqs EXCEPT
                  ![r].pc = IF Len(reqs[r].dto.tagIds) > 0
                            THEN "createMany" ELSE "write",
                  ![r].deleted = TRUE,
                  ![r].before = TagsOfPost(db, reqs[r].id)]
    /\ UNCHANGED translationVars

\* prisma.postTag.createMany({ data }): one INSERT, refused as a whole by
\* post_tag_pkey, post_tag_postId_fkey or post_tag_tagId_fkey.
PostTagCreateMany(d, id, tagIds) ==
    IF postFindUniqueById(d, id) = NoPost
    THEN [error |-> "P2003", db |-> d]
    ELSE IF \E k \in DOMAIN tagIds : tagIds[k] \notin d.tag
    THEN [error |-> "P2003", db |-> d]
    ELSE IF \/ \E k, l \in DOMAIN tagIds : k # l /\ tagIds[k] = tagIds[l]
            \/ \E k \in DOMAIN tagIds : tagIds[k] \in TagsOfPost(d, id)
    THEN [error |-> "P2002", db |-> d]
    ELSE [error |-> "none",
          db |-> [d EXCEPT !.postTag =
                     @ \cup {[postId |-> id, tagId |-> tagIds[k]] : k \in DOMAIN tagIds}]]

\* update: if (tagsToConnect.length > 0) await prisma.postTag.createMany(...)
UpdateCreateMany(r) ==
    /\ reqs[r].op = "update"
    /\ reqs[r].pc = "createMany"
    /\ \E tx \in {PostTagCreateMany(db, reqs[r].id, reqs[r].dto.tagIds)} :
          /\ db' = tx.db
          /\ IF tx.error # "none"
             THEN Ends(r, tx.error)
             ELSE reqs' = [reqs EXCEPT ![r].pc = "write"]
    /\ UNCHANGED translationVars

\* Tags 1 and 2 and category 1 are stored, tag 3 and category 2 are not.
UpdateTagIds == {<< >>, <<1>>, <<3>>, <<2, 1>>, <<1, 1>>}

UpdateDtos ==
    {[slug |-> sl, categoryId |-> cat, articleData |-> << >>] :
        sl \in {NoSlug, <<"P">>, <<"Q">>}, cat \in {0, 1, 2}}
    \cup {[slug |-> sl, categoryId |-> cat, articleData |-> << >>, tagIds |-> ts] :
            sl \in {NoSlug, <<"P">>, <<"Q">>}, cat \in {0, 1, 2}, ts \in UpdateTagIds}

\* Post 1 (slug p) is updated, post 2 holds the slug q.
InitUpdate ==
    /\ NoTranslation
    /\ \E had \in SUBSET {1, 2} :
          db = [EmptyDb EXCEPT
                  !.post = <<NewPost(Slug(<<"p">>, 0), 1), NewPost(Slug(<<"q">>, 0), 1)>>,
                  !.category = <<NewCategory(Slug(<<"c">>, 0))>>,
                  !.tag = {1, 2},
                  !.postTag = {[postId |-> 1, tagId |-> t] : t \in had}]
    /\ reqs \in [1..1 -> {NewUpdateCall(1, dto) : dto \in UpdateDtos}]

NextUpdate ==
    \E r \in DOMAIN reqs :
        \/ FindOneFind(r)
        \/ FindOneIncrement(r)
        \/ EnsureUniqueSlugFind(r)
        \/ UpdateDeleteMany(r)
        \/ UpdateCreateMany(r)
        \/ UpdateWrite(r)

SpecUpdate == InitUpdate /\ [][NextUpdate]_vars

CreateDtos ==
    {[title |-> t, slug |-> NoSlug, categoryId |-> cat] :
        t \in {<<"A">>, <<"a">>, <<"b">>}, cat \in {0, 1}}
    \cup {[title |-> <<"b">>, slug |-> <<"A">>, categoryId |-> 1]}

\* Concurrent create calls on an empty post table.
InitCreate ==
    /\ NoTranslation
    /\ db = [EmptyDb EXCEPT !.category = <<NewCategory(Slug(<<"c">>, 0))>>]
    /\ reqs \in [1..NumRequests -> {NewCreateCall(dto) : dto \in CreateDtos}]

NextCreate ==
    \E r \in DOMAIN reqs :
        \/ EnsureUniqueSlugFind(r)
        \/ CreateWrite(r)

SpecCreate == InitCreate /\ [][NextCreate]_vars

\* The slugs the rows of a table hold when ensureUniqueSlug is called.
SlugCandidates ==
    {Slug(<<"a">>, n) : n \in 0..(MaxPosts - 1)} \cup {Slug(<<"b">>, 0)}

\* Tables of up to MaxPosts rows with distinct slugs (post_slug_key,
\* category_slug_key).
SlugTables ==
    UNION {{t \in [1..n -> SlugCandidates] :
               \A k, l \in 1..n : k # l => t[k] # t[l]} : n \in 0..MaxPosts}

\* One ensureUniqueSlug call and nobody else writing.
InitSlug ==
    /\ NoTranslation
    /\ \E table \in {"post", "category"}, t \in SlugTables,
          base \in {<<"a">>, <<"b">>}, excludeId \in 0..MaxPosts :
          /\ db = IF table = "post"
                  THEN [EmptyDb EXCEPT !.post = [k \in DOMAIN t |-> NewPost(t[k], 1)]]
                  ELSE [EmptyDb EXCEPT !.category = [k \in DOMAIN t |-> NewCategory(t[k])]]
          /\ reqs = <<NewSlugCall(table, base, excludeId)>>

NextSlug ==
    \E r \in DOMAIN reqs : EnsureUniqueSlugFind(r)

SpecSlug == InitSlug /\ [][NextSlug]_vars

\* ------------------------------ claims helpers ------------------------------

\* ------------------------------------------------------------------ claims

\* Every character of the text is whitespace (the empty text included).
IsBlank(t) == \A k \in 1..Len(t) : t[k] \in Whitespace

\* The position of text at which chunk k of cs ends.
BoundaryAfter(cs, k) == Len(join(SubSeq(cs, 1, k)))

\* A cut before position b lies strictly between a '<' and its matching '>':
\* the last '<' before b is not yet closed before b, and a '>' follows.
CutInsideTag(t, b) ==
    /\ lastIndexOf(t, "<", b - 1) > lastIndexOf(t, ">", b - 1)
    /\ indexOf(t, ">", b) # -1

\* The requests sent for chunk k (0-based), and the sleeps of ms milliseconds.
FetchCount(k) == Cardinality({j \in 1..Len(log) : log[j] = FetchEvent(k)})
SleepCount(ms) == Cardinality({j \in 1..Len(log) : log[j] = SleepEvent(ms)})

\* Chunk k (1-based) was recorded with its original text.
FellBack(k) == translatedChunks[k] = chunks[k]

\* C1: the chunks returned by splitIntoHTMLSafeChunks(s, minChunkSize),
\* concatenated in order without separator, are exactly s; while the loop
\* runs, the chunks pushed so far are exactly the text before currentPos.
C1_RoundTrip ==
    /\ pc = "splitting" => join(chunks) = substring(text, 0, currentPos)
    /\ pc = "returned" => join(chunks) = text

\* A returned split of several chunks, one of them cut back to
\* currentPos + minChunkSize because the attempt cap was reached.
C1_Witness ==
    /\ pc = "returned"
    /\ Len(chunks) >= 2
    /\ \E k \in 1..Len(cuts) :
         /\ cuts[k].forced
         /\ cuts[k].attempts >= maxAttempts
         /\ cuts[k].end = cuts[k].start + minChunkSize
    /\ join(chunks) = text

\* C2: no boundary between two consecutive returned chunks lies strictly
\* between a '<' and its matching '>'.
C2_NoMidTagCut ==
    pc = "returned" =>
        \A k \in 1..(Len(chunks) - 1) :
            ~CutInsideTag(text, BoundaryAfter(chunks, k))

\* C3 as stated: every returned chunk has balanced tags unless the attempt
\* cap was exceeded for it.
C3_AllChunksBalanced ==
    pc = "returned" =>
        \A k \in 1..Len(chunks) :
            ~hasUnclosedTags(chunks[k]) \/ cuts[k].attempts >= maxAttempts

\* C3 as amended: every returned chunk other than the last has balanced tags
\* unless the attempt cap was exceeded for it.
C3_NonFinalChunksBalanced ==
    pc = "returned" =>
        \A k \in 1..(Len(chunks) - 1) :
            ~hasUnclosedTags(chunks[k]) \/ cuts[k].attempts >= maxAttempts

\* A non-final chunk that was extended to balance its tags.
C3_Witness ==
    /\ pc = "returned"
    /\ \E k \in 1..(Len(chunks) - 1) :
         /\ cuts[k].attempts >= 1
         /\ ~hasUnclosedTags(chunks[k])
         /\ hasUnclosedTags(substring(chunks[k], 0, minChunkSize))

\* C4 as stated: a text no longer than minChunkSize comes back as exactly
\* one chunk equal to the text.
C4_ShortInputOneChunk ==
    (pc = "returned" /\ Len(text) <= minChunkSize) => chunks = <<text>>

\* C4 as amended: a non-empty text no longer than minChunkSize comes back as
\* exactly one chunk equal to the text, and the empty text as no chunk.
C4_ShortNonEmptyOneChunk ==
    (pc = "returned" /\ Len(text) <= minChunkSize) =>
        chunks = IF Len(text) > 0 THEN <<text>> ELSE << >>

C4_Witness ==
    /\ pc = "returned"
    /\ Len(text) = minChunkSize
    /\ hasUnclosedTags(text)
    /\ chunks = <<text>>

\* C5: translateToEnglish of an empty or whitespace-only text returns the
\* empty string and sends no request.
C5_BlankNoRequest ==
    IsBlank(text) =>
        /\ pc \in {"called", "done"}
        /\ log = << >>
        /\ pc = "done" => result = << >>

C5_Witness ==
    /\ pc = "done"
    /\ Len(text) >= 2
    /\ IsBlank(text)
    /\ result = << >>
    /\ log = << >>

\* C6 as stated: splitIntoHTMLSafeChunks returns no chunk for an empty or
\* whitespace-only text.
C6_BlankNoChunks ==
    (pc = "returned" /\ IsBlank(text)) => chunks = << >>

\* C6 as amended: splitIntoHTMLSafeChunks returns no chunk for the empty text
\* and only for it; a whitespace-only text of one or more characters comes
\* back as whitespace chunks.
C6_EmptyIffNoChunks ==
    pc = "returned" =>
        /\ chunks = << >> <=> text = << >>
        /\ \A k \in 1..Len(chunks) : chunks[k] # << >>
        /\ IsBlank(text) => \A k \in 1..Len(chunks) : IsBlank(chunks[k])

C6_Witness ==
    /\ pc = "returned"
    /\ Len(text) > minChunkSize
    /\ IsBlank(text)
    /\ Len(chunks) >= 2
    /\ \A k \in 1..Len(chunks) : IsBlank(chunks[k])

\* C7: the example text with minChunkSize 40 comes back as at least two
\* chunks, none of whose boundaries lies inside the first <p>...</p> element
\* (positions 1 to 46), and whose concatenation is the text.
C7_Example ==
    (pc = "returned" /\ text = ExampleText /\ minChunkSize = 40) =>
        /\ Len(chunks) >= 2
        /\ \A k \in 1..(Len(chunks) - 1) : BoundaryAfter(chunks, k) >= 47
        /\ join(chunks) = text

\* C8: a chunk whose every attempt failed was requested exactly MAX_RETRIES
\* times, and its result is the original chunk text.
C8_ExactlyMaxRetriesCalls ==
    pc = "done" =>
        \A k \in 1..Len(translatedChunks) :
            FellBack(k) => FetchCount(k - 1) = MAX_RETRIES

\* C9: a chunk falls back only after MAX_RETRIES failed attempts separated
\* by retry delays: every recorded failure is preceded by MAX_RETRIES - 1
\* sleeps of RETRY_DELAY.
C9_FallbackOnlyAfterRetries ==
    SleepCount(RETRY_DELAY) >= (MAX_RETRIES - 1) * failCount

\* C10: translateToEnglish never ends in an exception: whatever fails for a
\* chunk, the call goes on, every chunk is requested, a failed chunk is
\* recorded with its original text, and the call returns the joined results.
C10_NeverPropagates ==
    /\ pc # "threw"
    /\ Len(translatedChunks) = successCount + failCount
    /\ failCount = Cardinality({k \in 1..Len(translatedChunks) : FellBack(k)})
    /\ (pc = "done" /\ ~IsBlank(text)) =>
         /\ Len(translatedChunks) = Len(chunks)
         /\ \A k \in 1..Len(chunks) : FetchCount(k - 1) >= 1
         /\ result = join(translatedChunks)

\* A returned call whose first chunk failed and whose later chunk succeeded.
C10_Witness ==
    /\ pc = "done"
    /\ Len(chunks) >= 2
    /\ FellBack(1)
    /\ ~FellBack(2)
    /\ result = join(translatedChunks)

\* C11: when every request of a call failed (no chunk was translated), the
\* call on a non-blank text returns, and returns the text exactly.
C11_TotalOutageReturnsOriginal ==
    (pc = "done" /\ ~IsBlank(text) /\ successCount = 0) =>
        /\ failCount = Len(chunks)
        /\ result = text

\* A returned call on a text of several chunks, every one of them requested
\* and failed, one of them with whitespace at its edge.
C11_Witness ==
    /\ pc = "done"
    /\ Len(chunks) >= 2
    /\ successCount = 0
    /\ failCount = Len(chunks)
    /\ \A k \in 1..Len(chunks) : FetchCount(k - 1) = 1
    /\ \E k \in 1..Len(chunks) : trim(chunks[k]) # chunks[k]
    /\ result = text

\* What the endpoint can have answered for a chunk c.
TranslationsOf(c) == {fieldString(f, c) : f \in 1..Len(Fields)}

\* C12: the k-th result recorded is the result of the k-th chunk (its
\* translation or the chunk itself), at every moment of the loop; when the
\* call returns there is one result per chunk and the returned string is the
\* results joined in index order without separator.
C12_OneResultPerChunkInOrder ==
    /\ Len(translatedChunks) <= Len(chunks)
    /\ \A k \in 1..Len(translatedChunks) :
         translatedChunks[k] \in {chunks[k]} \cup TranslationsOf(chunks[k])
    /\ (pc = "done" /\ ~IsBlank(text)) =>
         /\ Len(translatedChunks) = Len(chunks)
         /\ Len(result) = BoundaryAfter(translatedChunks, Len(chunks))
         /\ \A k \in 1..Len(chunks) :
              SubSeq(result, BoundaryAfter(translatedChunks, k - 1) + 1,
                     BoundaryAfter(translatedChunks, k)) = translatedChunks[k]

\* A returned call on two different chunks, both translated.
C12_Witness ==
    /\ pc = "done"
    /\ Len(chunks) >= 2
    /\ chunks[1] # chunks[2]
    /\ translatedChunks[1] \in TranslationsOf(chunks[1])
    /\ translatedChunks[2] \in TranslationsOf(chunks[2])
    /\ result = translatedChunks[1] \o translatedChunks[2]

\* The requests sent so far.
FetchesIssued == Cardinality({j \in 1..Len(log) : log[j].op = "fetch"})

\* C13: within one call at most one request is in flight: the requests sent
\* exceed the results recorded by at most one, and by one exactly while the
\* call awaits an answer; the request of chunk k + 1 is sent only when the
\* results of chunks 0..k are recorded, and no chunk is requested twice.
C13_OneRequestAtATime ==
    /\ FetchesIssued - Len(translatedChunks) \in {0, 1}
    /\ FetchesIssued - Len(translatedChunks) = 1 <=> pc \in {"awaitFetch", "awaitJson"}
    /\ \A k \in 0..(Len(chunks) - 1) :
         /\ FetchCount(k) <= 1
         /\ FetchCount(k) = 1 => Len(translatedChunks) >= k

\* The request of a later chunk is in flight, every earlier result recorded.
C13_Witness ==
    /\ pc = "awaitFetch"
    /\ i >= 1
    /\ Len(translatedChunks) = i
    /\ FetchesIssued = i + 1
    /\ log[Len(log)] = FetchEvent(i)

\* C14: every request after the first directly follows a sleep of
\* DELAY_BETWEEN_REQUESTS, whether the chunk before it was translated or fell
\* back, and no sleep follows the request of the last chunk.
C14_PacingBetweenChunks ==
    /\ \A j \in 2..Len(log) :
         log[j].op = "fetch" => log[j - 1] = SleepEvent(DELAY_BETWEEN_REQUESTS)
    /\ (pc = "done" /\ log # << >>) =>
         log[Len(log)] = FetchEvent(Len(chunks) - 1)

\* The first field of the body under way that is not falsy, 0 when none.
FirstNonEmpty ==
    IF \A k \in 1..Len(Fields) : body[k] = "falsy" THEN 0
    ELSE CHOOSE k \in 1..Len(Fields) :
             /\ body[k] # "falsy"
             /\ \A j \in 1..(k - 1) : body[j] = "falsy"

\* C15: once the body is read, a chunk counted as translated carries the
\* value of the first field, in the order translated_text, translatedText,
\* translation, text, response, whose value is not empty; a body whose first
\* non-empty field holds a string is counted as translated; a body with no
\* non-empty field makes the chunk a failure recorded with its own text.
C15_FirstNonEmptyField ==
    pc = "done" =>
        /\ successCount + failCount = 1
        /\ successCount = 1 =>
             /\ FirstNonEmpty # 0
             /\ translatedChunks = <<fieldString(FirstNonEmpty, chunks[1])>>
        /\ (FirstNonEmpty # 0 /\ body[FirstNonEmpty] = "string") => successCount = 1
        /\ FirstNonEmpty = 0 => failCount = 1 /\ translatedChunks = <<chunks[1]>>

\* A body whose first two fields are empty and whose third and fourth hold
\* strings: the third was taken.
C15_Witness ==
    /\ pc = "done"
    /\ body[1] = "falsy" /\ body[2] = "falsy"
    /\ body[3] = "string" /\ body[4] = "string"
    /\ successCount = 1
    /\ result = fieldString(3, chunks[1])

\* What translateToEnglish(t) returns on its own when the endpoint answers
\* its requests with as (per chunk: the field taken, 0 for a failure).
Alone(t, as) ==
    IF IsBlank(t) THEN << >>
    ELSE LET cs == splitShort(t, minChunkSize)
         IN  join([k \in 1..Len(cs) |->
                      IF as[k] = 0 THEN cs[k] ELSE fieldString(as[k], cs[k])])

\* C16: translateMultiple(texts) resolves to a sequence as long as texts
\* whose c-th element is what translateToEnglish(texts[c]) returns on its
\* own for the answers given to call c, whatever the order in which the
\* calls' awaits resolve and the calls return; every call that has returned
\* holds that result already.
C16_MultiplePointwise ==
    /\ \A c \in 1..Len(texts) :
         /\ calls[c].text = texts[c]
         /\ calls[c].pc = "done" =>
              calls[c].result = Alone(texts[c], calls[c].answers)
    /\ translations # NoResult =>
         /\ Len(translations) = Len(texts)
         /\ \A c \in 1..Len(texts) :
              translations[c] = Alone(texts[c], calls[c].answers)

\* Two calls of two chunks each, answered differently, the second returning
\* before the first.
C16_Witness ==
    /\ translations # NoResult
    /\ Len(texts) = 2
    /\ finished = <<2, 1>>
    /\ Len(calls[1].chunks) = 2
    /\ Len(calls[2].chunks) = 2
    /\ calls[1].answers = <<1, 0>>
    /\ calls[2].answers = <<0, 5>>
    /\ translations = <<Alone(texts[1], <<1, 0>>), Alone(texts[2], <<0, 5>>)>>

\* The phase of the call: 0 idle, 1 segmenting, 2 translating, 3 returned
\* with the results reassembled.
Phase(p) ==
    CASE p = "called" -> 0
      [] p \in {"splitting", "returned"} -> 1
      [] p \in {"awaitFetch", "awaitJson", "awaitSleep"} -> 2
      [] OTHER -> 3

\* C17: every step of a call keeps or advances its phase (idle, segmenting,
\* translating, reassembled and returned) and never lowers the chunk index;
\* while translating the index is that of a chunk; a step that records a
\* failure goes on to the request of the next chunk or, after the last
\* chunk, to the return, and never ends the call otherwise.
C17_ForwardOnly ==
    [][/\ Phase(pc') >= Phase(pc)
       /\ i' >= i
       /\ Phase(pc') = 2 => i' \in 0..(Len(chunks') - 1)
       /\ failCount' > failCount =>
            /\ i' = i + 1
            /\ \/ pc' = "awaitFetch" /\ i' < Len(chunks)
               \/ pc' = "done" /\ i' = Len(chunks) /\ result' # NoResult]_vars

\* A returned call of several chunks, the last of which failed after an
\* earlier one was translated.
C17_Witness ==
    /\ pc = "done"
    /\ Len(chunks) >= 2
    /\ i = Len(chunks)
    /\ successCount >= 1
    /\ FellBack(Len(chunks))
    /\ ~FellBack(1)

\* The steps a call takes without an answer of the endpoint: its own code
\* and its timers.
OwnStep == Call \/ SplitStep \/ SplitReturn \/ StartLoop \/ SleepResolves

\* C18: a call returns even when the endpoint never answers: while the call
\* waits for the answer to a request, a step that needs no answer of the
\* endpoint is possible (the request is ended by a timeout of its own and
\* counted as a failure).
C18_ReturnsWithoutAnswer ==
    pc \in {"awaitFetch", "awaitJson"} => ENABLED OwnStep

\* C19: splitIntoHTMLSafeChunks terminates: every pass of its outer loop
\* starts where the pass before ended and either takes the rest of the text
\* or ends at least minChunkSize characters further, never beyond the end
\* of the text, so that the characters left strictly decrease; and no chunk
\* took more than maxAttempts passes of the extension loop.
C19_AdvancesAndCapped ==
    /\ currentPos <= Len(text)
    /\ pc = "splitting" =>
         currentPos = IF cuts = << >> THEN 0 ELSE cuts[Len(cuts)].end
    /\ \A k \in 1..Len(cuts) :
         /\ cuts[k].start = IF k = 1 THEN 0 ELSE cuts[k - 1].end
         /\ cuts[k].end <= Len(text)
         /\ cuts[k].end > cuts[k].start
         /\ cuts[k].rest => k = Len(cuts) /\ cuts[k].end = Len(text) /\ pc = "returned"
         /\ ~cuts[k].rest => cuts[k].end >= cuts[k].start + minChunkSize
         /\ cuts[k].attempts <= maxAttempts

\* A returned split of four chunks or more in which two chunks used all
\* maxAttempts extension passes and the last one, extended as well, reached
\* the end of the text.
C19_Witness ==
    /\ pc = "returned"
    /\ Len(cuts) >= 4
    /\ \E k \in 1..Len(cuts) :
         /\ cuts[k].attempts = maxAttempts
         /\ \E j \in (k + 1)..Len(cuts) : cuts[j].attempts = maxAttempts
    /\ cuts[Len(cuts)].attempts >= 1
    /\ cuts[Len(cuts)].end = Len(text)

\* C20: a chunk is cut back from where the extension loop left it to
\* currentPos + minChunkSize only when the loop used up its attempts with
\* tags still unclosed in the candidate; a candidate that the extension made
\* balanced is pushed as extended.
C20_ForcedCutOnlyWhenUnbalanced ==
    \A k \in 1..Len(cuts) :
        /\ (cuts[k].forced /\ cuts[k].end # cuts[k].extEnd) =>
             cuts[k].attempts >= maxAttempts /\ ~cuts[k].balanced
        /\ (cuts[k].attempts >= 1 /\ cuts[k].balanced) =>
             cuts[k].end = cuts[k].extEnd

\* C21: every chunk of splitIntoHTMLSafeChunks(text, minChunkSize) other
\* than the last one returned has at least minChunkSize characters, and no
\* chunk is empty; while the loop runs every chunk pushed so far has at
\* least minChunkSize characters.
C21_MinChunkLength ==
    /\ \A k \in 1..Len(chunks) : Len(chunks[k]) >= 1
    /\ \A k \in 1..(Len(chunks) - 1) : Len(chunks[k]) >= minChunkSize
    /\ pc = "splitting" =>
         \A k \in 1..Len(chunks) : Len(chunks[k]) >= minChunkSize

\* A returned split of three chunks or more: one of exactly minChunkSize
\* characters that was cut back by the safety check, one longer, and a last
\* one shorter than minChunkSize.
C21_Witness ==
    /\ pc = "returned"
    /\ minChunkSize >= 2
    /\ Len(chunks) >= 3
    /\ \E k \in 1..(Len(chunks) - 1) :
         cuts[k].forced /\ Len(chunks[k]) = minChunkSize
    /\ \E k \in 1..(Len(chunks) - 1) : Len(chunks[k]) > minChunkSize
    /\ Len(chunks[Len(chunks)]) < minChunkSize

RECURSIVE TagsOf(_, _)
\* The tags of html from position from on, in order: whether each is a
\* closing tag, its name as written, and whether it is skipped (self-closing
\* or of a void element).
TagsOf(html, from) ==
    LET m == tagRegexExec(html, from)
    IN  IF ~m.found THEN << >>
        ELSE <<[close |-> m.fullTag[2] = "/",
                name |-> m.tagName,
                skipped |-> \/ SubSeq(m.fullTag, Len(m.fullTag) - 1,
                                      Len(m.fullTag)) = <<"/", ">">>
                            \/ toLowerCase(m.tagName) \in VoidElements]>>
             \o TagsOf(html, m.lastIndex)

\* The tags that count: those not skipped.
CountedTags(html) == SelectSeq(TagsOf(html, 0), LAMBDA t : ~t.skipped)

RECURSIVE Reduces(_)
\* A sequence of tags is balanced when it is empty, or when taking away an
\* opening tag directly followed by the closing tag of the same name, case
\* and all, leaves a balanced sequence.
Reduces(ts) ==
    \/ ts = << >>
    \/ \E k \in 1..(Len(ts) - 1) :
         /\ ~ts[k].close
         /\ ts[k + 1].close
         /\ ts[k].name = ts[k + 1].name
         /\ Reduces(SubSeq(ts, 1, k - 1) \o SubSeq(ts, k + 2, Len(ts)))

\* C22: hasUnclosedTags(text) returns false exactly when the tags of text,
\* without the self-closing tags and the tags of the void elements, are
\* balanced with names matched case-sensitively; otherwise (a closing tag
\* that does not match the innermost open tag, or a tag left open) it
\* returns true.
C22_StackDiscipline ==
    pc = "tagsReturned" => (result = FALSE <=> Reduces(CountedTags(text)))

\* A balanced text with nested tags of different names and a void tag, and
\* the result false.
C22_Witness ==
    /\ pc = "tagsReturned"
    /\ result = FALSE
    /\ Len(CountedTags(text)) = 4
    /\ CountedTags(text)[1].name # CountedTags(text)[2].name
    /\ Len(TagsOf(text, 0)) = 4

\* The chunks (0-based) for which a request was sent.
Attempted == {k \in 0..(Len(chunks) - 1) : FetchCount(k) >= 1}

\* C23: when a call on a non-blank text has returned, successCount plus
\* failCount is the number of chunks, every chunk was attempted, the chunks
\* counted as failed are those recorded with their own text, and when no
\* request failed the requests sent are as many as the chunks.
C23_CountsAddUp ==
    (pc = "done" /\ ~IsBlank(text)) =>
        /\ successCount + failCount = Len(chunks)
        /\ Cardinality(Attempted) = Len(chunks)
        /\ successCount = Cardinality({k \in 1..Len(chunks) : ~FellBack(k)})
        /\ failCount = 0 => FetchesIssued = Len(chunks)

\* A returned call of two chunks or more, every request of which succeeded.
C23_Witness ==
    /\ pc = "done"
    /\ Len(chunks) >= 2
    /\ failCount = 0
    /\ successCount = Len(chunks)
    /\ FetchesIssued = Len(chunks)

\* ---------------------------------------------------------------------------
\* ArticlesService

RECURSIVE SumCopies(_, _)
SumCopies(rows, bag) ==
    IF rows = {} THEN 0
    ELSE LET row == CHOOSE x \in rows : TRUE
         IN  CopiesIn(row, bag) + SumCopies(rows \ {row}, bag)

\* The number of post_liked rows of post p.
LikeRowsOf(p) ==
    SumCopies({row \in BagToSet(db.postLiked) : row.postId = p}, db.postLiked)

\* C24: in every state concurrent likePost and unlikePost calls from any IPs
\* can reach, the likeCount of every post equals the number of post_liked
\* rows of that post and is not negative.
C24_LikeCountMatchesRows ==
    \A p \in DOMAIN db.post :
        /\ db.post[p].likeCount = LikeRowsOf(p)
        /\ db.post[p].likeCount >= 0

\* Two likePost calls of one IP both passed the check for an existing like;
\* one of them committed, the other one's transaction was refused, and an
\* unlikePost of the same IP then took the like away.
C24_Witness ==
    \E r1, r2, r3 \in DOMAIN reqs :
        /\ reqs[r1].op = "likePost" /\ reqs[r1].outcome = "ok"
        /\ reqs[r2].op = "likePost" /\ reqs[r2].outcome = "P2002"
        /\ reqs[r3].op = "unlikePost" /\ reqs[r3].outcome = "ok"
        /\ reqs[r1].ip = reqs[r2].ip /\ reqs[r2].ip = reqs[r3].ip
        /\ db.post[1].likeCount = 0

\* C28: a likePost or unlikePost call that found its post and did not get
\* through ended with ConflictException, also when calls for the same pair
\* run at the same time.
C28_FailsWithConflict ==
    \A r \in DOMAIN reqs :
        (reqs[r].pc = "done" /\ reqs[r].outcome \notin {"ok", "NotFoundException"})
            => reqs[r].outcome = "ConflictException"

\* C25: under any interleaving of findBySlug calls, at most one call per
\* viewer IP increments the viewCount of a post, and post_viewed holds at most
\* one row per post and hashed IP, also for two calls of one IP at the same
\* time.
C25_OneViewPerIp ==
    \A ip \in Ips :
        /\ \A p \in DOMAIN db.post :
              CopiesIn(ViewRow(p, hashIp(ip)), db.postViewed) <= 1
        /\ Cardinality({r \in DOMAIN reqs : /\ reqs[r].op = "findBySlug"
                                            /\ reqs[r].ip = ip
                                            /\ reqs[r].bumps >= 1}) <= 1

\* C27: a publish, unpublish, update or remove call has not changed the
\* viewCount of any post.
C27_AdminLeavesViewCount ==
    \A r \in DOMAIN reqs :
        reqs[r].op \in {"publish", "unpublish", "update", "remove"}
            => reqs[r].bumps = 0

\* C26: when create calls with the same base slug run at the same time, every
\* call (that names a category) succeeds and the stored posts have pairwise
\* distinct slugs.
C26_ConcurrentCreatesSucceed ==
    /\ \A r \in DOMAIN reqs :
          (reqs[r].op = "create" /\ reqs[r].pc = "done" /\ reqs[r].dto.categoryId # 0)
              => reqs[r].outcome = "ok"
    /\ \A p, q \in DOMAIN db.post :
          (p # q /\ db.post[p].live /\ db.post[q].live)
              => db.post[p].slug # db.post[q].slug

\* C29: an update call that failed after it deleted the post_tag rows of the
\* post has left the post with the tags it had before.
C29_TagsAllOrNothing ==
    \A r \in DOMAIN reqs :
        (/\ reqs[r].op = "update"
         /\ reqs[r].pc = "done"
         /\ reqs[r].outcome # "ok"
         /\ reqs[r].deleted)
            => TagsOfPost(db, reqs[r].id) = reqs[r].before

\* Candidate n of the call is held by no row, or by row excludeId.
CandidateFree(call, n) ==
    \A p \in DOMAIN db[call.table] :
        (db[call.table][p].live /\ db[call.table][p].slug = Slug(call.base, n))
            => p = call.excludeId

\* C30: with finitely many rows and nobody else writing, ensureUniqueSlug
\* ends after at most one pass per row and one more, and returns the first
\* of slug, slug-1, slug-2, ... that no row holds or that row excludeId holds.
C30_FirstFreeCandidate ==
    \A r \in DOMAIN reqs :
        /\ reqs[r].counter <= Len(db[reqs[r].table]) + 1
        /\ reqs[r].pc = "done" =>
              /\ reqs[r].uniqueSlug.base = reqs[r].base
              /\ CandidateFree(reqs[r], reqs[r].uniqueSlug.n)
              /\ \A n \in 0..(reqs[r].uniqueSlug.n - 1) : ~CandidateFree(reqs[r], n)

\* The call passed over slug, held by another row, and returned slug-1, which
\* the row excludeId holds, although slug-2 is free as well.
C30_Witness ==
    \E r \in DOMAIN reqs :
        /\ reqs[r].pc = "done"
        /\ reqs[r].uniqueSlug.n = 1
        /\ reqs[r].excludeId # 0
        /\ slugHolder(db, reqs[r].table, reqs[r].uniqueSlug) = reqs[r].excludeId
        /\ slugHolder(db, reqs[r].table, Slug(reqs[r].base, 0)) # 0
        /\ slugHolder(db, reqs[r].table, Slug(reqs[r].base, 2)) = 0
====
